---- MODULE Spec2Model ----
(***************************************************************************)
(* The intrusion state-transition engine of CyberAttackSimulatorEnv        *)
(* (cyber_attack_simulator/envs/environment.py): reset, step and the       *)
(* helpers step calls.  The collaborators Network, State, Action and       *)
(* loader are modelled at the interface environment.py uses.               *)
(*                                                                         *)
(* Probabilities and random draws are tenths: probability 1.0 is 10 and a  *)
(* draw of np.random.rand(), a value of [0, 1), is one of 0 .. 9.          *)
(***************************************************************************)
EXTENDS Integers, Sequences, FiniteSets, TLC

VARIABLES
    config,               \* self.config: the network configuration
    init_state,           \* self.init_state: the stored initial template
    current_state,        \* self.current_state: machine -> [compromised, reachable, services]
    compromised_subnets,  \* self.compromised_subnets
    rng,                  \* number of draws taken from np.random since it was seeded
    stream,               \* the draws the seed's generator is known to produce, in order
    last,                 \* the last call: its arguments, what it returned, the state before it
    run,                  \* the (action, reward, done) triples of the current episode
    tape,                 \* the previous episode as recorded, and its final state
    mode                  \* "free", "record", "replay_reset" or "replay_construct"

vars == <<config, init_state, current_state, compromised_subnets, rng, stream,
          last, run, tape, mode>>

-----------------------------------------------------------------------------
(* Bounds *)

\* draws one seeding of the generator may serve
MaxDraws == 5
\* steps of a recorded episode
MaxRun == 3

-----------------------------------------------------------------------------
(* Program constants *)

R_SENSITIVE == 10
R_USER == 10
EXPLOIT_COST == 1
SCAN_COST == 1
\* loader.INTERNET, the ingress subnet
INTERNET == 0

-----------------------------------------------------------------------------
(* Configurations: what the loader / generator hands to the constructor *)

\* config["service_exploits"].keys(), in order
ServiceOrder == <<"ssh", "ftp">>

ServiceNames == {ServiceOrder[i] : i \in 1..Len(ServiceOrder)}

\* success probability of the exploit of each service, in tenths
service_exploits == [ssh |-> 10, ftp |-> 5]

\* the values np.random.rand() may return, in tenths: one equal to the
\* probability of the ftp exploit, one above it
Draws == {5, 7}

\* A line of subnets 0 - 1 - 2 - 3, every subnet connected with itself.
\* Sensitive machines (1,0) and (2,0); subnet 3 holds two user machines.
ConfigMulti ==
    [name        |-> "multi",
     subnets     |-> <<0, 1, 1, 2>>,
     topology    |-> {<<0, 0>>, <<1, 1>>, <<2, 2>>, <<3, 3>>,
                      <<0, 1>>, <<1, 0>>, <<1, 2>>, <<2, 1>>, <<2, 3>>, <<3, 2>>},
     firewall    |-> {<<0, 1, "ssh">>,
                      <<1, 1, "ssh">>, <<1, 1, "ftp">>,
                      <<1, 2, "ssh">>, <<1, 2, "ftp">>,
                      <<2, 2, "ssh">>, <<2, 2, "ftp">>,
                      <<2, 3, "ssh">>,
                      <<3, 3, "ssh">>, <<3, 3, "ftp">>},
     sensitive   |-> {<<1, 0>>, <<2, 0>>},
     value       |-> (<<1, 0>> :> R_SENSITIVE) @@ (<<2, 0>> :> R_SENSITIVE) @@
                     (<<3, 0>> :> R_USER) @@ (<<3, 1>> :> 0),
     services    |-> (<<1, 0>> :> [ssh |-> TRUE, ftp |-> FALSE]) @@
                     (<<2, 0>> :> [ssh |-> FALSE, ftp |-> TRUE]) @@
                     (<<3, 0>> :> [ssh |-> TRUE, ftp |-> TRUE]) @@
                     (<<3, 1>> :> [ssh |-> FALSE, ftp |-> FALSE])]

\* Two subnets: ingress 0 adjacent to subnet 1, whose one machine is sensitive
\* and runs service 0; the firewall admits service 0 from subnet 0 to subnet 1.
ConfigPair ==
    [name        |-> "pair",
     subnets     |-> <<0, 1>>,
     topology    |-> {<<0, 1>>, <<1, 0>>},
     firewall    |-> {<<0, 1, "ssh">>},
     sensitive   |-> {<<1, 0>>},
     value       |-> (<<1, 0>> :> R_SENSITIVE),
     services    |-> (<<1, 0>> :> [ssh |-> TRUE, ftp |-> FALSE])]

Configs == {ConfigMulti, ConfigPair}

-----------------------------------------------------------------------------
(* Network *)

\* Network.get_address_space: every machine address, subnet by subnet
Machines(cfg) ==
    UNION {{<<s - 1, h>> : h \in 0..(cfg.subnets[s] - 1)} : s \in 1..Len(cfg.subnets)}

\* Network.subnets_connected
subnets_connected(cfg, a, b) == <<a, b>> \in cfg.topology

\* Network.traffic_permitted
traffic_permitted(cfg, src, dest, service) == <<src, dest, service>> \in cfg.firewall

\* Network.get_sensitive_machines
get_sensitive_machines(cfg) == cfg.sensitive

\* Network.perform_action: (success, value, services).  A scan reports the
\* services and carries no value; an exploit succeeds iff its service runs
\* on the target, and then yields the target's value and its services.
perform_action(cfg, action) ==
    IF action.kind = "scan"
    THEN [success |-> TRUE, value |-> 0, services |-> cfg.services[action.target]]
    ELSE IF cfg.services[action.target][action.service]
         THEN [success |-> TRUE, value |-> cfg.value[action.target],
               services |-> cfg.services[action.target]]
         ELSE [success |-> FALSE, value |-> 0, services |-> <<>>]

-----------------------------------------------------------------------------
(* Action *)

\* Action.load_action_space: one scan per address, one exploit per address and
\* service; probabilities are fixed when the catalogue is built
action_space(cfg) ==
    {[kind |-> "scan", target |-> m, service |-> "none",
      cost |-> SCAN_COST, prob |-> 10] : m \in Machines(cfg)}
    \cup
    {[kind |-> "exploit", target |-> m, service |-> s,
      cost |-> EXPLOIT_COST, prob |-> service_exploits[s]] :
        m \in Machines(cfg), s \in ServiceNames}

\* an address of no machine: one host beyond the last machine of the last subnet
AbsentAddress(cfg) == <<Len(cfg.subnets) - 1, cfg.subnets[Len(cfg.subnets)]>>

\* actions a caller builds itself, against an address the network does not hold
foreign_actions(cfg) ==
    {[kind |-> "scan", target |-> AbsentAddress(cfg), service |-> "none",
      cost |-> SCAN_COST, prob |-> 10],
     [kind |-> "exploit", target |-> AbsentAddress(cfg), service |-> ServiceOrder[1],
      cost |-> EXPLOIT_COST, prob |-> service_exploits[ServiceOrder[1]]]}

\* Action.is_scan
is_scan(action) == action.kind = "scan"

-----------------------------------------------------------------------------
(* State *)

num_services == Len(ServiceOrder)

\* State.reachable
reachable(st, m) == st[m].reachable

\* State.reachable called with an address the state does not hold: the lookup
\* raises instead of returning
raises_KeyError(st, m) == m \notin DOMAIN st

\* State.compromised
compromised(st, m) == st[m].compromised

\* State.update_service: the belief about service index s of the target
update_service(st, target, s, v) ==
    [st EXCEPT ![target].services[s] = IF v = 1 THEN "present" ELSE "absent"]

\* State.set_compromised
set_compromised(st, target) == [st EXCEPT ![target].compromised = TRUE]

\* State.set_reachable
set_reachable(st, m) == [st EXCEPT ![m].reachable = TRUE]

\* State.generate_initial_state: nothing compromised, nothing known, and the
\* machines of the subnets connected with the ingress subnet reachable
generate_initial_state(cfg) ==
    [m \in Machines(cfg) |->
        [compromised |-> FALSE,
         reachable   |-> subnets_connected(cfg, m[1], INTERNET),
         services    |-> [i \in 0..(num_services - 1) |-> "unknown"]]]

\* State.copy: an independent copy, sharing nothing with the original
copy(st) == [m \in DOMAIN st |-> st[m]]

-----------------------------------------------------------------------------
(* CyberAttackSimulatorEnv *)

\* self.service_map: service -> its position in config["service_exploits"]
service_map == [s \in ServiceNames |-> (CHOOSE i \in 1..Len(ServiceOrder) : ServiceOrder[i] = s) - 1]

\* _get_service_index
_get_service_index(service) == service_map[service]

\* _vectorize filling the vector from its end: service i at position n - 1 - i
_vectorize_Reversed(services) ==
    IF Cardinality(DOMAIN services) = 0
    THEN services
    ELSE [i \in 0..(Cardinality(DOMAIN services) - 1) |->
            IF \E s \in DOMAIN services :
                  Cardinality(DOMAIN services) - 1 - _get_service_index(s) = i /\ services[s]
            THEN 1 ELSE 0]

\* _vectorize: a service map as a 0/1 vector indexed by service position; an
\* empty map is returned as it is
_vectorize(services) ==
    IF Cardinality(DOMAIN services) = 0
    THEN services
    ELSE [i \in 0..(Cardinality(DOMAIN services) - 1) |->
            IF \E s \in DOMAIN services : _get_service_index(s) = i /\ services[s]
            THEN 1 ELSE 0]

\* _generate_initial_state
_generate_initial_state(cfg) == generate_initial_state(cfg)

\* _action_traffic_permitted asking every compromised subnet for admission
_action_traffic_permitted_All(cfg, st, subnets, action) ==
    IF ~reachable(st, action.target) THEN FALSE
    ELSE IF is_scan(action) THEN TRUE
    ELSE \A src \in subnets :
            traffic_permitted(cfg, src, action.target[1], action.service)

\* _action_traffic_permitted
_action_traffic_permitted(cfg, st, subnets, action) ==
    IF ~reachable(st, action.target) THEN FALSE
    ELSE IF is_scan(action) THEN TRUE
    ELSE \E src \in subnets :
            traffic_permitted(cfg, src, action.target[1], action.service)

\* _update_reachable recomputing the reachable flags from the new subnet alone
_update_reachable_OnlyConnected(cfg, st, compromised_m) ==
    [m \in DOMAIN st |->
        [st[m] EXCEPT !.reachable = subnets_connected(cfg, compromised_m[1], m[1])]]

\* _update_reachable following connections through one more subnet
_update_reachable_Transitive(cfg, st, compromised_m) ==
    [m \in DOMAIN st |->
        IF reachable(st, m) THEN st[m]
        ELSE IF \E mid \in 0..(Len(cfg.subnets) - 1) :
                    /\ subnets_connected(cfg, compromised_m[1], mid)
                    /\ subnets_connected(cfg, mid, m[1])
             THEN set_reachable(st, m)[m]
             ELSE st[m]]

\* _update_reachable: the machines not yet reachable whose subnet is connected
\* with the subnet of the newly compromised machine become reachable
_update_reachable(cfg, st, compromised_m) ==
    [m \in DOMAIN st |->
        IF reachable(st, m) THEN st[m]
        ELSE IF subnets_connected(cfg, compromised_m[1], m[1])
             THEN set_reachable(st, m)[m]
             ELSE st[m]]

\* the loop of _update_state over range(len(services)), from index s on
RECURSIVE UpdateServices(_, _, _, _)
UpdateServices(st, target, services, s) ==
    IF s >= Cardinality(DOMAIN services) THEN st
    ELSE UpdateServices(update_service(st, target, s, services[s]), target, services, s + 1)

\* _update_state treating every exploit as successful
_update_state_IgnoresSuccess(cfg, st, subnets, action, success, services) ==
    LET revealed == UpdateServices(st, action.target, services, 0) IN
    IF ~is_scan(action)
    THEN [state   |-> _update_reachable(cfg, set_compromised(revealed, action.target),
                                        action.target),
          subnets |-> subnets \cup {action.target[1]}]
    ELSE [state |-> revealed, subnets |-> subnets]

\* _update_state that does not record the subnet of the compromised machine
_update_state_ForgetsSubnet(cfg, st, subnets, action, success, services) ==
    IF is_scan(action) \/ (~is_scan(action) /\ success)
    THEN LET revealed == UpdateServices(st, action.target, services, 0) IN
         IF ~is_scan(action)
         THEN [state   |-> _update_reachable(cfg, set_compromised(revealed, action.target),
                                             action.target),
               subnets |-> subnets]
         ELSE [state |-> revealed, subnets |-> subnets]
    ELSE [state |-> st, subnets |-> subnets]

\* _update_state revealing, on a successful exploit, the exploited service alone
_update_state_RevealsExploitedOnly(cfg, st, subnets, action, success, services) ==
    IF is_scan(action) \/ (~is_scan(action) /\ success)
    THEN IF ~is_scan(action)
         THEN LET s        == _get_service_index(action.service)
                  revealed == update_service(st, action.target, s, services[s])
              IN  [state   |-> _update_reachable(cfg,
                                                 set_compromised(revealed, action.target),
                                                 action.target),
                   subnets |-> subnets \cup {action.target[1]}]
         ELSE [state   |-> UpdateServices(st, action.target, services, 0),
               subnets |-> subnets]
    ELSE [state |-> st, subnets |-> subnets]

\* _update_state: the state and the compromised subnets after the action
_update_state(cfg, st, subnets, action, success, services) ==
    IF is_scan(action) \/ (~is_scan(action) /\ success)
    THEN LET revealed == UpdateServices(st, action.target, services, 0) IN
         IF ~is_scan(action)
         THEN [state   |-> _update_reachable(cfg, set_compromised(revealed, action.target),
                                             action.target),
               subnets |-> subnets \cup {action.target[1]}]
         ELSE [state |-> revealed, subnets |-> subnets]
    ELSE [state |-> st, subnets |-> subnets]

\* _is_goal satisfied by one compromised sensitive machine
_is_goal_Any(cfg, st) ==
    \E sensitive_m \in get_sensitive_machines(cfg) : compromised(st, sensitive_m)

\* _is_goal: every sensitive machine is compromised
_is_goal(cfg, st) ==
    \A sensitive_m \in get_sensitive_machines(cfg) : compromised(st, sensitive_m)

\* an early return of step that charges nothing
EarlyExit_Free(st, subnets, action, why) ==
    [state |-> st, subnets |-> subnets, reward |-> 0, done |-> FALSE, exit |-> why]

\* an early return of step: the cost is paid, the episode goes on, the state
\* is the one step found
EarlyExit(st, subnets, action, why) ==
    [state |-> st, subnets |-> subnets, reward |-> 0 - action.cost,
     done |-> FALSE, exit |-> why]

\* the resolution of step testing the goal before the state is updated
Resolve_GoalBeforeUpdate(cfg, st, subnets, action) ==
    LET res            == perform_action(cfg, action)
        service_vector == _vectorize(res.services)
        value          == IF compromised(st, action.target) THEN 0 ELSE res.value
        upd            == _update_state(cfg, st, subnets, action, res.success,
                                        service_vector)
    IN  [state |-> upd.state, subnets |-> upd.subnets,
         reward |-> value - action.cost,
         done |-> _is_goal(cfg, st), exit |-> "resolved"]

\* the resolution of step paying the target's value whenever the network does
Resolve_ValueEveryTime(cfg, st, subnets, action) ==
    LET res            == perform_action(cfg, action)
        service_vector == _vectorize(res.services)
        upd            == _update_state(cfg, st, subnets, action, res.success,
                                        service_vector)
    IN  [state |-> upd.state, subnets |-> upd.subnets,
         reward |-> res.value - action.cost,
         done |-> _is_goal(cfg, upd.state), exit |-> "resolved"]

\* the resolution of step, past the gates and the draw
Resolve(cfg, st, subnets, action) ==
    LET res            == perform_action(cfg, action)
        service_vector == _vectorize(res.services)
        value          == IF compromised(st, action.target) THEN 0 ELSE res.value
        upd            == _update_state(cfg, st, subnets, action, res.success,
                                        service_vector)
    IN  [state |-> upd.state, subnets |-> upd.subnets,
         reward |-> value - action.cost,
         done |-> _is_goal(cfg, upd.state), exit |-> "resolved"]

\* step failing the action whose draw reaches its probability
StepResult_FailsAtProbability(cfg, st, subnets, action, draw) ==
    IF ~reachable(st, action.target)
    THEN EarlyExit(st, subnets, action, "unreachable")
    ELSE IF ~_action_traffic_permitted(cfg, st, subnets, action)
    THEN EarlyExit(st, subnets, action, "blocked")
    ELSE IF draw >= action.prob
    THEN EarlyExit(st, subnets, action, "failed")
    ELSE Resolve(cfg, st, subnets, action)

\* step, from the state (st, subnets): what it returns and the state it leaves.
\* draw is the value of np.random.rand(), read only when both gates are passed.
StepResult(cfg, st, subnets, action, draw) ==
    IF ~reachable(st, action.target)
    THEN EarlyExit(st, subnets, action, "unreachable")
    ELSE IF ~_action_traffic_permitted(cfg, st, subnets, action)
    THEN EarlyExit(st, subnets, action, "blocked")
    ELSE IF draw > action.prob
    THEN EarlyExit(st, subnets, action, "failed")
    ELSE Resolve(cfg, st, subnets, action)

\* step reading np.random.rand() for exploits alone
Draws_rand_ExploitsOnly(cfg, st, subnets, action) ==
    /\ ~is_scan(action)
    /\ reachable(st, action.target)
    /\ _action_traffic_permitted(cfg, st, subnets, action)

\* step reading np.random.rand() before it tests the gates
Draws_rand_BeforeGates(cfg, st, subnets, action) == TRUE

\* whether step reads np.random.rand(): only past both gates
Draws_rand(cfg, st, subnets, action) ==
    reachable(st, action.target) /\ _action_traffic_permitted(cfg, st, subnets, action)

\* the values the next np.random.rand() may return: the seed fixes the stream,
\* so a position drawn before returns what it returned then
NextDraws == IF rng < Len(stream) THEN {stream[rng + 1]} ELSE Draws

NoAction == [kind |-> "none", target |-> <<0, 0>>, service |-> "none", cost |-> 0, prob |-> 0]

Snapshot == [state |-> current_state, subnets |-> compromised_subnets, rng |-> rng]

\* the call of reset or of the constructor, as last records it
CallRecord(op) ==
    [op |-> op, action |-> NoAction, reward |-> 0, done |-> FALSE, exit |-> "none",
     draw |-> -1, pre |-> Snapshot]

\* reset leaving compromised_subnets as the last episode left it
reset_KeepSubnets ==
    /\ current_state' = copy(init_state)
    /\ compromised_subnets' = compromised_subnets
    /\ last' = CallRecord("reset")
    /\ UNCHANGED <<config, init_state, rng, stream>>

\* reset
reset ==
    /\ current_state' = copy(init_state)
    /\ compromised_subnets' = {INTERNET}
    /\ last' = CallRecord("reset")
    /\ UNCHANGED <<config, init_state, rng, stream>>

\* __init__ that does not seed the generator
Construct_NoSeed ==
    /\ rng' = rng
    /\ init_state' = _generate_initial_state(config)
    /\ current_state' = copy(_generate_initial_state(config))
    /\ compromised_subnets' = {INTERNET}
    /\ last' = CallRecord("construct")
    /\ UNCHANGED <<config, stream>>

\* __init__ called again with the same config and seed: np.random.seed(seed)
\* restarts the generator's stream, then the template is built and reset() runs
Construct ==
    /\ rng' = 0
    /\ init_state' = _generate_initial_state(config)
    /\ current_state' = copy(_generate_initial_state(config))
    /\ compromised_subnets' = {INTERNET}
    /\ last' = CallRecord("construct")
    /\ UNCHANGED <<config, stream>>

\* the call of step that raised at line 157: nothing is returned
Raised(action) ==
    [op |-> "raise", action |-> action, reward |-> 0, done |-> FALSE, exit |-> "none",
     draw |-> -1, pre |-> Snapshot]

\* step(action) catching the error of the lookup and charging the cost
step_AbsorbsKeyError(action) ==
    IF raises_KeyError(current_state, action.target)
    THEN /\ last' = [op |-> "step", action |-> action, reward |-> 0 - action.cost,
                     done |-> FALSE, exit |-> "unreachable", draw |-> -1,
                     pre |-> Snapshot]
         /\ UNCHANGED <<config, init_state, current_state, compromised_subnets, rng, stream>>
    ELSE IF Draws_rand(config, current_state, compromised_subnets, action)
    THEN /\ rng < MaxDraws
         /\ \E draw \in NextDraws :
              LET r == StepResult(config, current_state, compromised_subnets, action, draw) IN
              /\ current_state' = r.state
              /\ compromised_subnets' = r.subnets
              /\ rng' = rng + 1
              /\ stream' = IF rng < Len(stream) THEN stream ELSE Append(stream, draw)
              /\ last' = [op |-> "step", action |-> action, reward |-> r.reward,
                          done |-> r.done, exit |-> r.exit, draw |-> draw, pre |-> Snapshot]
         /\ UNCHANGED <<config, init_state>>
    ELSE LET r == StepResult(config, current_state, compromised_subnets, action, 0) IN
         /\ current_state' = r.state
         /\ compromised_subnets' = r.subnets
         /\ last' = [op |-> "step", action |-> action, reward |-> r.reward,
                     done |-> r.done, exit |-> r.exit, draw |-> -1, pre |-> Snapshot]
         /\ UNCHANGED <<config, init_state, rng, stream>>

\* step(action)
step(action) ==
    IF raises_KeyError(current_state, action.target)
    THEN /\ last' = Raised(action)
         /\ UNCHANGED <<config, init_state, current_state, compromised_subnets, rng, stream>>
    ELSE IF Draws_rand(config, current_state, compromised_subnets, action)
    THEN /\ rng < MaxDraws
         /\ \E draw \in NextDraws :
              LET r == StepResult(config, current_state, compromised_subnets, action, draw) IN
              /\ current_state' = r.state
              /\ compromised_subnets' = r.subnets
              /\ rng' = rng + 1
              /\ stream' = IF rng < Len(stream) THEN stream ELSE Append(stream, draw)
              /\ last' = [op |-> "step", action |-> action, reward |-> r.reward,
                          done |-> r.done, exit |-> r.exit, draw |-> draw, pre |-> Snapshot]
         /\ UNCHANGED <<config, init_state>>
    ELSE LET r == StepResult(config, current_state, compromised_subnets, action, 0) IN
         /\ current_state' = r.state
         /\ compromised_subnets' = r.subnets
         /\ last' = [op |-> "step", action |-> action, reward |-> r.reward,
                     done |-> r.done, exit |-> r.exit, draw |-> -1, pre |-> Snapshot]
         /\ UNCHANGED <<config, init_state, rng, stream>>

-----------------------------------------------------------------------------
(* The environment driven freely: any action of the catalogue, any reset *)

Init ==
    /\ config \in Configs
    /\ init_state = _generate_initial_state(config)
    /\ current_state = copy(_generate_initial_state(config))
    /\ compromised_subnets = {INTERNET}
    /\ rng = 0
    /\ stream = <<>>
    /\ last = [op |-> "construct", action |-> NoAction, reward |-> 0, done |-> FALSE,
               exit |-> "none", draw |-> -1,
               pre |-> [state |-> _generate_initial_state(config),
                        subnets |-> {INTERNET}, rng |-> 0]]
    /\ run = <<>>
    /\ tape = [steps |-> <<>>, state |-> _generate_initial_state(config),
               subnets |-> {INTERNET}]
    /\ mode = "free"

Step == \E action \in action_space(config) :
            step(action) /\ UNCHANGED <<run, tape, mode>>

\* step called with an action that is not of the catalogue
StepForeign == \E action \in foreign_actions(config) :
                   step(action) /\ UNCHANGED <<run, tape, mode>>

Reset == reset /\ UNCHANGED <<run, tape, mode>>

Reconstruct == Construct /\ UNCHANGED <<run, tape, mode>>

Next == Step \/ StepForeign \/ Reset \/ Reconstruct

Spec == Init /\ [][Next]_vars

-----------------------------------------------------------------------------
(* The environment driven twice by one action sequence: an episode is        *)
(* recorded, a second one is started by reset() or by constructing the       *)
(* environment again with the same seed, and the recorded actions are fed    *)
(* to it in order.                                                           *)

InitReplay ==
    /\ config \in Configs
    /\ init_state = _generate_initial_state(config)
    /\ current_state = copy(_generate_initial_state(config))
    /\ compromised_subnets = {INTERNET}
    /\ rng = 0
    /\ stream = <<>>
    /\ last = [op |-> "construct", action |-> NoAction, reward |-> 0, done |-> FALSE,
               exit |-> "none", draw |-> -1,
               pre |-> [state |-> _generate_initial_state(config),
                        subnets |-> {INTERNET}, rng |-> 0]]
    /\ run = <<>>
    /\ tape = [steps |-> <<>>, state |-> _generate_initial_state(config),
               subnets |-> {INTERNET}]
    /\ mode = "record"

Returned(action) == [action |-> action, reward |-> last'.reward, done |-> last'.done]

RecordStep ==
    /\ mode = "record"
    /\ Len(run) < MaxRun
    /\ \E action \in action_space(config) :
          /\ step(action)
          /\ run' = Append(run, Returned(action))
    /\ UNCHANGED <<tape, mode>>

Recorded == [steps |-> run, state |-> current_state, subnets |-> compromised_subnets]

SecondEpisodeByReset ==
    /\ mode = "record"
    /\ run # <<>>
    /\ reset
    /\ tape' = Recorded
    /\ run' = <<>>
    /\ mode' = "replay_reset"

SecondEpisodeByConstruct ==
    /\ mode = "record"
    /\ run # <<>>
    /\ Construct
    /\ tape' = Recorded
    /\ run' = <<>>
    /\ mode' = "replay_construct"

ReplayStep ==
    /\ mode \in {"replay_reset", "replay_construct"}
    /\ Len(run) < Len(tape.steps)
    /\ step(tape.steps[Len(run) + 1].action)
    /\ run' = Append(run, Returned(tape.steps[Len(run) + 1].action))
    /\ UNCHANGED <<tape, mode>>

NextReplay == RecordStep \/ SecondEpisodeByReset \/ SecondEpisodeByConstruct \/ ReplayStep

SpecReplay == InitReplay /\ [][NextReplay]_vars

-----------------------------------------------------------------------------
(* Properties of step and reset, stated on the last call *)

Stepped == last.op = "step"

\* the Knowledge State is what it was before the last call
Untouched ==
    /\ current_state = last.pre.state
    /\ compromised_subnets = last.pre.subnets

CostOnly == last.reward = 0 - last.action.cost /\ last.done = FALSE

CompromisedSet(st) == {m \in DOMAIN st : st[m].compromised}

ReachableSet(st) == {m \in DOMAIN st : st[m].reachable}

\* C1: a step whose target is not in the reachable set returns reward = -cost
\* and terminal = false, and the whole Knowledge State (compromised, reachable,
\* service beliefs, compromised subnets) is the same before and after the call.
C1_UnreachableIsCostOnly ==
    (Stepped /\ last.action.target \notin ReachableSet(last.pre.state))
        => (CostOnly /\ Untouched)

\* an unreachable target attacked after a machine has been compromised
C1_Witness ==
    /\ Stepped
    /\ last.action.target \notin ReachableSet(last.pre.state)
    /\ CompromisedSet(last.pre.state) # {}
    /\ last.exit = "unreachable"

\* some compromised subnet may send the exploit's service to the target's subnet
Admitted(cfg, subnets, action) ==
    \E s \in subnets : <<s, action.target[1], action.service>> \in cfg.firewall

\* C2: an exploit of a reachable target passes the admission gate iff some
\* subnet of compromised_subnets is allowed the exploit's service to the
\* target's subnet; when none is, step returns reward = -cost and terminal =
\* false and leaves the Knowledge State unchanged.
C2_AdmissionIsExistential ==
    (/\ Stepped
     /\ last.action.kind = "exploit"
     /\ last.action.target \in ReachableSet(last.pre.state))
        => /\ (last.exit # "blocked") <=> Admitted(config, last.pre.subnets, last.action)
           /\ ~Admitted(config, last.pre.subnets, last.action) => (CostOnly /\ Untouched)

\* an exploit admitted from a compromised subnet other than the ingress subnet,
\* which the ingress subnet alone would not have been allowed
C2_Witness ==
    /\ Stepped
    /\ last.action.kind = "exploit"
    /\ last.action.target \in ReachableSet(last.pre.state)
    /\ last.exit \in {"failed", "resolved"}
    /\ ~Admitted(config, {INTERNET}, last.action)
    /\ Cardinality(last.pre.subnets) >= 2

\* a reachable target the firewall lets no compromised subnet exploit
C2_WitnessBlocked ==
    /\ Stepped
    /\ last.exit = "blocked"
    /\ Cardinality(last.pre.subnets) >= 2

GoalReached == get_sensitive_machines(config) \subseteq CompromisedSet(current_state)

\* C3 as stated: the terminal value of every step, early exits included, is
\* true iff every sensitive machine is compromised after the step.
C3_TerminalIffGoalEveryStep ==
    Stepped => (last.done <=> GoalReached)

\* C3 amended: the terminal value of a step that passes the three gates is true
\* iff every sensitive machine is compromised after the step; a step that exits
\* at the reachability, admission or probabilistic gate returns terminal =
\* false, also when every sensitive machine is already compromised.
C3_TerminalIffGoalWhenResolved ==
    Stepped =>
        IF last.exit = "resolved"
        THEN last.done <=> GoalReached
        ELSE last.done = FALSE

\* a resolved step that compromises the last sensitive machine and ends the episode
C3_Witness ==
    /\ Stepped
    /\ last.exit = "resolved"
    /\ last.done
    /\ ~(get_sensitive_machines(config) \subseteq CompromisedSet(last.pre.state))

\* an early exit taken when every sensitive machine is already compromised
C3_WitnessEarlyExitAtGoal ==
    /\ Stepped
    /\ last.exit # "resolved"
    /\ GoalReached

\* C4: across the steps of one episode the compromised set and the reachable
\* set never lose a member, and a service belief that has left "unknown" never
\* returns to "unknown" nor changes to the other concrete value.
C4_StepsAreMonotone ==
    Stepped =>
        /\ CompromisedSet(last.pre.state) \subseteq CompromisedSet(current_state)
        /\ ReachableSet(last.pre.state) \subseteq ReachableSet(current_state)
        /\ \A m \in DOMAIN current_state : \A i \in 0..(num_services - 1) :
              last.pre.state[m].services[i] # "unknown"
                 => current_state[m].services[i] = last.pre.state[m].services[i]

\* a resolved step on a target whose services were known already, taken while
\* a machine of a subnet not connected with the target's subnet is reachable
C4_Witness ==
    /\ Stepped
    /\ last.exit = "resolved"
    /\ last.action.target \in CompromisedSet(current_state)
    /\ last.pre.state[last.action.target].services[0] # "unknown"
    /\ \E m \in ReachableSet(last.pre.state) :
           <<last.action.target[1], m[1]>> \notin config.topology

\* the last step was an exploit that succeeded on its target
ExploitSucceeded ==
    /\ Stepped
    /\ last.action.kind = "exploit"
    /\ last.exit = "resolved"
    /\ config.services[last.action.target][last.action.service]

\* C5: after a successful exploit of a machine of subnet S every machine of
\* every subnet adjacent to S (topology, not firewall) is reachable, and no
\* machine of a subnet not adjacent to S became reachable in that step.
C5_ReachabilityPropagation ==
    ExploitSucceeded =>
        LET S == last.action.target[1] IN
        /\ \A m \in DOMAIN current_state :
              <<S, m[1]>> \in config.topology => m \in ReachableSet(current_state)
        /\ \A m \in ReachableSet(current_state) \ ReachableSet(last.pre.state) :
              <<S, m[1]>> \in config.topology

\* a successful exploit that made a machine reachable and left another, two
\* subnets away, unreachable
C5_Witness ==
    /\ ExploitSucceeded
    /\ ReachableSet(current_state) \ ReachableSet(last.pre.state) # {}
    /\ DOMAIN current_state \ ReachableSet(current_state) # {}

\* C6: a step whose target is already compromised returns reward = -cost,
\* whatever the action and the draw; so a reward above -cost is paid only by
\* the step that compromises its target, at most once per machine and episode.
C6_NoValueFromCompromised ==
    Stepped =>
        /\ last.action.target \in CompromisedSet(last.pre.state)
              => last.reward = 0 - last.action.cost
        /\ last.reward > 0 - last.action.cost
              => /\ last.action.target \notin CompromisedSet(last.pre.state)
                 /\ last.action.target \in CompromisedSet(current_state)

\* a second successful exploit of a compromised machine that has a value
C6_Witness ==
    /\ ExploitSucceeded
    /\ last.action.target \in CompromisedSet(last.pre.state)
    /\ config.value[last.action.target] > 0

\* the baseline: nothing compromised, nothing known, the machines of the
\* subnets connected with the ingress subnet reachable
Baseline(cfg) ==
    [m \in Machines(cfg) |->
        [compromised |-> FALSE,
         reachable   |-> <<m[1], INTERNET>> \in cfg.topology,
         services    |-> [i \in 0..(num_services - 1) |-> "unknown"]]]

\* C7: after any sequence of steps reset() leaves the Knowledge State at the
\* baseline (every belief unknown, only the initially reachable machines
\* reachable, nothing compromised, compromised_subnets = {ingress}), and the
\* stored template init_state is never changed by a step.
C7_ResetRestoresBaseline ==
    /\ init_state = Baseline(config)
    /\ last.op = "reset" =>
          /\ current_state = Baseline(config)
          /\ compromised_subnets = {INTERNET}

\* a reset after an episode that compromised a machine and revealed services
C7_Witness ==
    /\ last.op = "reset"
    /\ CompromisedSet(last.pre.state) # {}
    /\ last.pre.subnets # {INTERNET}
    /\ ReachableSet(last.pre.state) # ReachableSet(current_state)

\* the belief the ground truth of service index i of machine m warrants
Truth(cfg, m, i) ==
    IF cfg.services[m][ServiceOrder[i + 1]] THEN "present" ELSE "absent"

\* C9: a scan of a reachable target passes the admission gate whatever the
\* firewall says and passes the probabilistic gate, sets every service belief
\* of the target to its ground truth, and leaves compromised, reachable and
\* compromised_subnets unchanged.
C9_ScanRevealsAll ==
    (/\ Stepped
     /\ last.action.kind = "scan"
     /\ last.action.target \in ReachableSet(last.pre.state))
        => /\ last.exit = "resolved"
           /\ \A i \in 0..(num_services - 1) :
                 current_state[last.action.target].services[i]
                    = Truth(config, last.action.target, i)
           /\ CompromisedSet(current_state) = CompromisedSet(last.pre.state)
           /\ ReachableSet(current_state) = ReachableSet(last.pre.state)
           /\ compromised_subnets = last.pre.subnets

\* a scan of a reachable machine with unknown services, running one service
\* and not the other, to whose subnet the firewall admits no exploit of some
\* service from any compromised subnet
C9_Witness ==
    /\ Stepped
    /\ last.action.kind = "scan"
    /\ last.exit = "resolved"
    /\ last.pre.state[last.action.target].services[0] = "unknown"
    /\ current_state[last.action.target].services[0]
          # current_state[last.action.target].services[1]
    /\ \E s \in ServiceNames : \A src \in last.pre.subnets :
          <<src, last.action.target[1], s>> \notin config.firewall

\* C10: is_goal() is true iff the sensitive machines are a subset of
\* compromised; with sensitive set {(1,0),(2,0)} a step that leaves (1,0) the
\* only compromised sensitive machine returns terminal = false, and the step
\* whose successful exploit compromises the second one returns terminal = true.
C10_GoalDetection ==
    /\ _is_goal(config, current_state) <=> GoalReached
    /\ (/\ Stepped
        /\ get_sensitive_machines(config) = {<<1, 0>>, <<2, 0>>})
          => /\ (CompromisedSet(current_state) \cap {<<1, 0>>, <<2, 0>>} = {<<1, 0>>})
                   => last.done = FALSE
             /\ (/\ ExploitSucceeded
                 /\ last.action.target \notin CompromisedSet(last.pre.state)
                 /\ {<<1, 0>>, <<2, 0>>} \subseteq CompromisedSet(current_state))
                   => last.done = TRUE

\* the successful exploit of (2,0) when (1,0) is the only compromised machine
C10_Witness ==
    /\ ExploitSucceeded
    /\ get_sensitive_machines(config) = {<<1, 0>>, <<2, 0>>}
    /\ CompromisedSet(last.pre.state) = {<<1, 0>>}
    /\ last.action.target = <<2, 0>>
    /\ last.done

\* the second episode has returned what the first returned, step for step, and
\* once it has taken every recorded action its Knowledge State is the first's
SecondRunAgrees ==
    /\ \A i \in 1..Len(run) : run[i] = tape.steps[i]
    /\ Len(run) = Len(tape.steps)
          => /\ current_state = tape.state
             /\ compromised_subnets = tape.subnets

\* C8 as stated: with a fixed seed, two runs of reset() followed by one action
\* sequence return the same rewards and end in the same Knowledge State, also
\* when they are two successive episodes of one environment.
C8_SecondEpisodeAgrees ==
    mode \in {"replay_reset", "replay_construct"} => SecondRunAgrees

\* C8 amended: two runs that each start from the construction of the
\* environment with the same seed, followed by the same action sequence,
\* return the same rewards and end in the same Knowledge State.
C8_SameSeedSameRun ==
    mode = "replay_construct" => SecondRunAgrees

\* a second run from construction that has repeated every recorded action, the
\* last an exploit of probability below 1 that the draw decided
C8_Witness ==
    /\ mode = "replay_construct"
    /\ Len(run) = Len(tape.steps)
    /\ Stepped
    /\ last.action.prob < 10
    /\ last.draw # -1

\* the two actions of the end-to-end scenario
ScanOfTarget ==
    [kind |-> "scan", target |-> <<1, 0>>, service |-> "none",
     cost |-> SCAN_COST, prob |-> 10]

ExploitOfTarget ==
    [kind |-> "exploit", target |-> <<1, 0>>, service |-> ServiceOrder[1],
     cost |-> EXPLOIT_COST, prob |-> service_exploits[ServiceOrder[1]]]

Revealed(cfg, st, m) ==
    \A i \in 0..(num_services - 1) : st[m].services[i] = Truth(cfg, m, i)

\* C11: in the two-subnet network (ingress 0 adjacent to subnet 1, service 0
\* admitted from 0 to 1, sensitive machine (1,0) running service 0, exploit
\* probability 1.0, costs 1, value 10) an episode that starts with Scan((1,0))
\* and Exploit((1,0), service 0) returns reward -1 and terminal false with the
\* services of (1,0) revealed, then reward 9 and terminal true.
C11_EndToEnd ==
    (/\ config = ConfigPair
     /\ Len(run) >= 1
     /\ run[1].action = ScanOfTarget)
        => /\ run[1].reward = -1
           /\ run[1].done = FALSE
           /\ Len(run) = 1 => Revealed(config, current_state, <<1, 0>>)
           /\ (Len(run) >= 2 /\ run[2].action = ExploitOfTarget)
                 => /\ run[2].reward = 9
                    /\ run[2].done = TRUE
                    /\ Len(run) = 2 => Revealed(config, last.pre.state, <<1, 0>>)

\* the scenario played to its end in an episode started by reset()
C11_Witness ==
    /\ config = ConfigPair
    /\ mode = "replay_reset"
    /\ Len(run) = 2
    /\ run[1].action = ScanOfTarget
    /\ run[2].action = ExploitOfTarget
    /\ run[2].done
    /\ <<1, 0>> \in CompromisedSet(current_state)

PassedGates ==
    /\ Stepped
    /\ last.action.target \in ReachableSet(last.pre.state)
    /\ \/ last.action.kind = "scan"
       \/ Admitted(config, last.pre.subnets, last.action)

\* C13: for a reachable, admitted action, a draw above the action's
\* probability makes step return reward = -cost and terminal = false with the
\* Knowledge State unchanged; a draw less than or equal to the probability lets
\* the action proceed to resolution, so probability 1.0 is never failed.
C13_DrawDecides ==
    PassedGates =>
        /\ last.draw \in Draws
        /\ last.draw > last.action.prob
              => (last.exit = "failed" /\ CostOnly /\ Untouched)
        /\ last.draw <= last.action.prob => last.exit = "resolved"
        /\ last.action.prob = 10 => last.exit = "resolved"

\* an admitted exploit whose draw equals its probability and which compromised
\* its target
C13_Witness ==
    /\ PassedGates
    /\ last.draw = last.action.prob
    /\ last.exit = "resolved"
    /\ last.action.target \in CompromisedSet(current_state) \ CompromisedSet(last.pre.state)

\* an admitted exploit failed by its draw after a machine has been compromised
C13_WitnessFailed ==
    /\ PassedGates
    /\ last.exit = "failed"
    /\ CompromisedSet(last.pre.state) # {}

\* the last step was an exploit that passed the gates and the draw and did not
\* succeed: its service does not run on the target
ExploitMissed ==
    /\ Stepped
    /\ last.action.kind = "exploit"
    /\ last.exit = "resolved"
    /\ ~config.services[last.action.target][last.action.service]

\* C14: an exploit that passes all gates and does not succeed on its target
\* changes nothing: the target's service beliefs, compromised,
\* compromised_subnets and reachable are what they were.
C14_MissedExploitChangesNothing ==
    ExploitMissed => Untouched

\* a missed exploit of a machine that is not compromised, whose services are
\* unknown and whose subnet has an unreachable neighbour
C14_Witness ==
    /\ ExploitMissed
    /\ last.action.target \notin CompromisedSet(current_state)
    /\ current_state[last.action.target].services[0] = "unknown"
    /\ last.action.target[1] \notin compromised_subnets
    /\ \E m \in DOMAIN current_state \ ReachableSet(current_state) :
          <<last.action.target[1], m[1]>> \in config.topology

\* the subnets that hold a compromised machine
SubnetsOfCompromised(st) == {m[1] : m \in CompromisedSet(st)}

\* C15: in every state compromised_subnets is the ingress subnet together
\* with exactly the subnets that hold at least one compromised machine.
C15_CompromisedSubnetsDerived ==
    compromised_subnets = {INTERNET} \cup SubnetsOfCompromised(current_state)

\* machines of two subnets are compromised
C15_Witness ==
    /\ Cardinality(SubnetsOfCompromised(current_state)) >= 2
    /\ Cardinality(compromised_subnets) >= 3

\* the draws the last step took from the generator
DrawsTaken == rng - last.pre.rng

\* C16 as stated: every step with an exploit action advances the generator by
\* exactly one draw, and a step with a scan action does not advance it.
C16_OneDrawPerExploitOnly ==
    Stepped =>
        /\ last.action.kind = "exploit" => DrawsTaken = 1
        /\ last.action.kind = "scan" => DrawsTaken = 0

\* C16 amended: step reads the generator at most once per call; a step whose
\* action, scan or exploit, passes the reachability and the admission gate
\* advances the generator by exactly one draw, and a step that exits at either
\* gate does not advance it.
C16_OneDrawPerGatedAction ==
    Stepped =>
        /\ DrawsTaken = IF PassedGates THEN 1 ELSE 0
        /\ (last.draw # -1) <=> PassedGates

\* a scan that took a draw, in a state where an exploit had been blocked
\* without one
C16_Witness ==
    /\ Stepped
    /\ last.action.kind = "scan"
    /\ DrawsTaken = 1
    /\ last.exit = "resolved"
    /\ CompromisedSet(current_state) # {}

\* C17: the reachability and the admission gate come before the draw: a step
\* that exits because its target is unreachable or its traffic is not admitted
\* takes no draw and leaves the generator where it was.
C17_GatedExitTakesNoDraw ==
    (Stepped /\ (~PassedGates \/ last.exit \in {"unreachable", "blocked"}))
        => /\ last.exit \in {"unreachable", "blocked"}
           /\ ~PassedGates
           /\ DrawsTaken = 0
           /\ last.draw = -1

\* an exploit blocked by the firewall after the generator has served draws
C17_Witness ==
    /\ Stepped
    /\ last.exit = "blocked"
    /\ last.pre.rng >= 2
    /\ rng = last.pre.rng

\* an exploit of an unreachable target after the generator has served draws
C17_WitnessUnreachable ==
    /\ Stepped
    /\ last.exit = "unreachable"
    /\ last.pre.rng >= 1

\* C18: in every state every compromised machine is reachable, and every
\* service belief of a compromised machine is known and is its ground truth.
C18_CompromisedAreReachableAndKnown ==
    \A m \in CompromisedSet(current_state) :
        /\ m \in ReachableSet(current_state)
        /\ Revealed(config, current_state, m)

\* a compromised machine that was never scanned and runs one service of two
C18_Witness ==
    /\ ExploitSucceeded
    /\ last.pre.state[last.action.target].services[0] = "unknown"
    /\ current_state[last.action.target].services[0]
          # current_state[last.action.target].services[1]
    /\ Cardinality(CompromisedSet(current_state)) >= 2

\* the machines reachable at the start of an episode
InitiallyReachable(cfg) == {m \in Machines(cfg) : <<m[1], INTERNET>> \in cfg.topology}

\* C19: in every state each reachable machine is initially reachable or lies
\* in a subnet adjacent to the subnet of a compromised machine, and only a
\* successful exploit makes a machine reachable.
C19_ReachableIsExplained ==
    /\ \A m \in ReachableSet(current_state) :
          \/ m \in InitiallyReachable(config)
          \/ \E c \in CompromisedSet(current_state) : <<c[1], m[1]>> \in config.topology
    /\ (Stepped /\ ~ExploitSucceeded)
          => ReachableSet(current_state) = ReachableSet(last.pre.state)
    /\ last.op = "raise" => ReachableSet(current_state) = ReachableSet(last.pre.state)

\* machines reachable only through a compromised neighbour, while others
\* are still unreachable
C19_Witness ==
    /\ ReachableSet(current_state) \ InitiallyReachable(config) # {}
    /\ DOMAIN current_state \ ReachableSet(current_state) # {}
    /\ Stepped
    /\ ~ExploitSucceeded
    /\ last.exit = "resolved"

Unknown(st, m) == \A i \in 0..(num_services - 1) : st[m].services[i] = "unknown"

\* C20: in every state the service beliefs of each machine are all unknown or
\* all equal to the machine's ground truth, and they are known only for
\* reachable machines.
C20_BeliefsAllOrNothing ==
    \A m \in DOMAIN current_state :
        /\ Unknown(current_state, m) \/ Revealed(config, current_state, m)
        /\ ~Unknown(current_state, m) => m \in ReachableSet(current_state)

\* one machine known by a scan, one known by an exploit, one unreachable and
\* unknown
C20_Witness ==
    /\ \E m \in DOMAIN current_state \ CompromisedSet(current_state) :
          Revealed(config, current_state, m)
    /\ \E m \in CompromisedSet(current_state) : Revealed(config, current_state, m)
    /\ \E m \in DOMAIN current_state \ ReachableSet(current_state) :
          Unknown(current_state, m)

====
